---- MODULE Spec2Model ----
(***************************************************************************)
(* protocol-mve-transport: a multiplexing transport (src/src/lib.rs).      *)
(*                                                                         *)
(* Spec       one multiplexer (TransportInner behind Arc<Mutex<..>>) used  *)
(*            by several drivers, each holding a Transport with its own    *)
(*            id, together with the remote end feeding the inbound stream. *)
(* FairSpec   Spec plus the scheduling of woken tasks.                     *)
(* EngineSpec the Unravel engine of one endpoint and the Coalesce engine   *)
(*            of the other, each with the counter of its own multiplexer.  *)
(* LateSpec   EngineSpec with the counters near the top of the u32 range.   *)
(* FinalizeSpec the Unravel engine, finalize / finalize_immediate and the   *)
(*            executor of the tasks they launch.                           *)
(* LaunchSpec one multiplexer with a driver that launches a task by         *)
(*            finalize / finalize_immediate, and the task as a driver.     *)
(* WriteSpec  the write side of one multiplexer while the Unravel engine   *)
(*            is polled, to success or to a fault.                         *)
(* PairSpec   both endpoints connected by a pair of in-memory channels,    *)
(*            exchanging a flat value or a forked stream.                  *)
(***************************************************************************)
EXTENDS Integers, Sequences, FiniteSets, TLC

\* ------------------------------------------------------------------ bounds
\* items put on the inbound stream + write, poll_ready, poll_flush and fork calls
MaxEvents == 2
\* polls of one engine that return Pending
MaxPending == 2
\* allocations on the multiplexer of one engine
MaxForks == 3
\* calls of finalize and finalize_immediate
MaxSpawns == 2

\* ------------------------------------------------- u32 handles and frames
\* ContextHandle(u32): a u32 is kept as two 16-bit words <<high, low>>, so
\* that the whole 32-bit range is representable.
Word == 65536
Byte == 256
PrefixLen == 4

Handle(n) == <<n \div Word, n % Word>>

\* self.next_id += 2 on a u32
U32Add2(h) ==
    IF h[2] + 2 >= Word
    THEN <<(h[1] + 1) % Word, (h[2] + 2) % Word>>
    ELSE <<h[1], h[2] + 2>>

\* mutant: the prefix is written least significant byte first
ToLeBytes(h) == <<h[2] % Byte, h[2] \div Byte, h[1] % Byte, h[1] \div Byte>>

\* mutant: the prefix is read least significant byte first
FromLeBytes(b) == <<b[4] * Byte + b[3], b[2] * Byte + b[1]>>

\* u32::to_be_bytes / u32::from_be_bytes
ToBeBytes(h) == <<h[1] \div Byte, h[1] % Byte, h[2] \div Byte, h[2] % Byte>>
FromBeBytes(b) == <<b[1] * Byte + b[2], b[3] * Byte + b[4]>>

\* bincode `from_slice::<I>(&data[4..])` for I = bool: one byte, 0 or 1;
\* an empty payload or another byte is a decoding error.
Deserialize(bytes) ==
    IF Len(bytes) >= 1 /\ bytes[1] \in {0, 1}
    THEN [ok |-> TRUE, val |-> bytes[1]]
    ELSE [ok |-> FALSE, val |-> 0]

\* what the remote end can put on the stream: Ok(Vec<u8>) or Err(e)
OkItem(bytes) == [err |-> FALSE, data |-> bytes]
ErrItem == [err |-> TRUE, data |-> <<>>]

NoTask == "none"
Tasks == {"t1", "t2"}
RootHandle == Handle(0)
TaskHandles == {Handle(0), Handle(1)}
WireHandles == {Handle(0), Handle(1)}
\* ids received from the remote side, which allocated them
JoinHandles == {Handle(1), Handle(2)}
Payloads == {<<>>, <<0>>, <<1>>}
ShortItems == {<<>>, <<0, 0, 1>>}
StreamItems ==
    {OkItem(ToBeBytes(h) \o p) : h \in WireHandles, p \in Payloads}
        \cup {OkItem(s) : s \in ShortItems} \cup {ErrItem}

\* what a driver can write: bincode `to_vec(&item)` of a bool is one byte; a
\* value bincode cannot encode (a sequence of unknown length) fails.
WriteItems == {[encodable |-> TRUE, val |-> 0], [encodable |-> TRUE, val |-> 1],
               [encodable |-> FALSE, val |-> 0]}
Serialize(item) ==
    IF item.encodable THEN [ok |-> TRUE, bytes |-> <<item.val>>]
    ELSE [ok |-> FALSE, bytes |-> <<>>]

VARIABLES
    stream,      \* TransportInner.stream: items delivered and not yet pulled
    closed,      \* the stream yields end-of-stream once it is drained
    waker,       \* the task whose waker the stream holds (set by a Pending poll)
    buffer,      \* TransportInner.buffer: handle -> queue of whole frames
    next_id,     \* TransportInner.next_id
    sink,        \* items handed to TransportInner.sink
    lock,        \* holder of the Mutex around TransportInner
    id,          \* Transport.id of each driver
    pc,          \* where each driver is
    returned,    \* what the step just taken returned (NoResult: it was no return)
    delivered,   \* history: every item the remote end delivered, in order
    consumed,    \* history: every frame taken by a read of its own handle
    allocated,   \* history: every handle returned by next_id()
    calls,       \* history: number of write, poll_ready, poll_flush, fork calls
    fut,         \* Unravel.fut: the UnravelState the Unravel engine is in
    output,      \* what each engine's poll returned last
    counter,     \* TransportInner.next_id of each engine's multiplexer
    root,        \* Transport.id of each engine's own transport
    forked,      \* history: the handles each engine's multiplexer allocated
    polled,      \* history: polls of the Target, Finalize and Coalesce futures
    poisoned,    \* the Mutex of each engine's multiplexer is poisoned by a panic
    spawned,     \* the tasks the spawner accepted, in the order of their launch
    launched,    \* history: what each call of finalize / finalize_immediate returned
    value,       \* the root value given to Unravel::new
    inbound,     \* TransportInner.stream of each endpoint: the channel from its peer
    bufs,        \* TransportInner.buffer of each endpoint
    aroot,       \* the task that awaits the Unravel engine
    abg,         \* number of items the launched task has written
    broot,       \* the task that awaits the Coalesce engine and then drains the stream
    got          \* what the Coalesce engine returned and the items drained since

muxVars == <<stream, closed, waker, buffer, next_id, sink, lock, id, pc, returned,
             delivered, consumed, allocated, calls>>
engineVars == <<fut, output, counter, root, forked, polled, poisoned, spawned, launched>>
pairVars == <<value, inbound, bufs, aroot, abg, broot, got>>
vars == <<muxVars, engineVars, pairVars>>

Events == Len(delivered) + calls

\* Transport { inner, spawner, id }: inner names the Arc<Mutex<TransportInner>>
\* the transport points to. Every driver's transport points to the one
\* multiplexer of the specification.
Inner == "inner"
NoContext == [inner |-> "none", id |-> RootHandle]
TransportOf(t) == [inner |-> Inner, id |-> id[t]]

Returned(t, op, h, res, val) ==
    [task |-> t, op |-> op, handle |-> h, res |-> res, val |-> val, ctx |-> NoContext]
NoResult == Returned(NoTask, "none", RootHandle, "none", 0)

\* ------------------------------------------------------ TransportInner
BufGet(buf, h) == IF h \in DOMAIN buf THEN buf[h] ELSE <<>>

\* mutant: a frame of another handle is dropped
BufDrop(buf, h, data) == buf

\* mutant: the frame goes to the front of the queue
BufPushFront(buf, h, data) ==
    [k \in DOMAIN buf \cup {h} |-> IF k = h THEN <<data>> \o BufGet(buf, h) ELSE buf[k]]

\* buffer.entry(h).or_insert(VecDeque::new()).push_back(data)
BufPushBack(buf, h, data) ==
    [k \in DOMAIN buf \cup {h} |-> IF k = h THEN Append(BufGet(buf, h), data) ELSE buf[k]]

\* buffer.get_mut(&h).map(|c| c.pop_front()): the queue stays in the map
BufPopFront(buf, h) == [buf EXCEPT ![h] = Tail(@)]

\* mutant: the payload is decoded from the start of the frame
DecodedWhole(data) ==
    LET d == Deserialize(data)
    IN  IF d.ok THEN [res |-> "Ok", val |-> d.val] ELSE [res |-> "Serde", val |-> 0]

\* from_slice(&data[4..]).map_err(SerdeReadError::Serde)
Decoded(data) ==
    LET d == Deserialize(SubSeq(data, PrefixLen + 1, Len(data)))
    IN  IF d.ok THEN [res |-> "Ok", val |-> d.val] ELSE [res |-> "Serde", val |-> 0]

\* mutant: a read that fails gives up the frames it has put in the queues
OutcomeForgetsOnError(r, buf, strm, took) ==
    [res |-> r.res, val |-> r.val,
     buffer |-> IF r.res \in {"Ok", "Pending"} THEN buf ELSE [k \in DOMAIN buf |-> <<>>],
     stream |-> strm, took |-> took]

\* mutant: the frame a read takes is left where the next read finds it
OutcomeFrameStays(r, buf, strm, took) ==
    [res |-> r.res, val |-> r.val, buffer |-> buf,
     stream |-> IF took = <<>> THEN strm ELSE <<OkItem(took[1])>> \o strm,
     took |-> took]

\* mutant: a frame that fails to decode is put back for the next read
OutcomeFailedStays(r, buf, strm, took) ==
    [res |-> r.res, val |-> r.val, buffer |-> buf,
     stream |-> IF r.res = "Serde" THEN <<OkItem(took[1])>> \o strm ELSE strm,
     took |-> IF r.res = "Serde" THEN <<>> ELSE took]

Outcome(r, buf, strm, took) ==
    [res |-> r.res, val |-> r.val, buffer |-> buf, stream |-> strm, took |-> took]

RECURSIVE PollStream(_, _, _, _)

\* mutant: the end of the stream is not told from an empty stream
DrainedPending(ended) == [res |-> "Pending", val |-> 0]

\* ready!(stream.try_poll_next(cx)).ok_or(SerdeReadError::Terminated)? on a
\* drained stream: Ready(None) once it has ended, Pending before
Drained(ended) == [res |-> IF ended THEN "Terminated" ELSE "Pending", val |-> 0]

\* mutant: a short item is dropped and the loop goes on
OnShortSkip(h, buf, rest, ended) == PollStream(h, buf, rest, ended)

\* if data.len() < 4 { return Poll::Ready(Err(SerdeReadError::Insufficient)) }
OnShort(h, buf, rest, ended) ==
    Outcome([res |-> "Insufficient", val |-> 0], buf, rest, <<>>)

\* the loop of TransportInner::read over the physical stream
PollStream(h, buf, strm, ended) ==
    IF strm = <<>>
    THEN Outcome(Drained(ended), buf, strm, <<>>)
    ELSE LET item == Head(strm)
             rest == Tail(strm)
         IN  IF item.err
             THEN Outcome([res |-> "Stream", val |-> 0], buf, rest, <<>>)
             ELSE IF Len(item.data) < PrefixLen
             THEN OnShort(h, buf, rest, ended)
             ELSE IF FromBeBytes(SubSeq(item.data, 1, PrefixLen)) = h
             THEN Outcome(Decoded(item.data), buf, rest, <<item.data>>)
             ELSE PollStream(h,
                             BufPushBack(buf,
                                         FromBeBytes(SubSeq(item.data, 1, PrefixLen)),
                                         item.data),
                             rest, ended)

\* mutant: the stream is polled whatever the buffer holds
ReadAttemptStreamOnly(h, buf, strm, ended) == PollStream(h, buf, strm, ended)

\* TransportInner::read(cx, handle): one non-blocking attempt
ReadAttempt(h, buf, strm, ended) ==
    IF BufGet(buf, h) # <<>>
    THEN Outcome(Decoded(Head(buf[h])), BufPopFront(buf, h), strm, <<Head(buf[h])>>)
    ELSE PollStream(h, buf, strm, ended)

\* mutant: the counter advances before the handle is taken
NextIdAfter(current) == [handle |-> U32Add2(current), next_id |-> U32Add2(current)]

\* TransportInner::next_id
NextId(current) == [handle |-> current, next_id |-> U32Add2(current)]

\* ------------------------------------------------------------- drivers
\* a driver between two operations ("woken": resumed inside a suspended read)
Idle(t) == pc[t] \in {"ready", "woken"}

\* self.inner.lock().unwrap(): the Mutex is taken at the head of the operation
Lock(t, op) ==
    /\ lock = NoTask
    /\ lock' = t
    /\ pc' = [pc EXCEPT ![t] = op]

\* mutant: the guard is kept across a Pending return
UnlockUnlessPending(t, to) ==
    /\ lock' = IF to \in {"suspended", "sink_wait"} THEN lock ELSE NoTask
    /\ pc' = [pc EXCEPT ![t] = to]

\* the MutexGuard is a temporary of the operation: it drops on return
Unlock(t, to) ==
    /\ lock' = NoTask
    /\ pc' = [pc EXCEPT ![t] = to]

LockRead(t) ==
    /\ Idle(t)
    /\ Lock(t, "read")
    /\ returned' = NoResult
    /\ UNCHANGED <<stream, closed, waker, buffer, next_id, sink, id, delivered, consumed, allocated, calls>>
    /\ UNCHANGED <<engineVars, pairVars>>

\* impl Read for Transport: the attempt under the lock, then the guard drops
Read(t) ==
    /\ pc[t] = "read"
    /\ LET o == ReadAttempt(id[t], buffer, stream, closed)
       IN  /\ buffer' = o.buffer
           /\ stream' = o.stream
           /\ waker' = IF o.res = "Pending" THEN t ELSE waker
           /\ Unlock(t, IF o.res = "Pending" THEN "suspended" ELSE "ready")
           /\ returned' = Returned(t, "read", id[t], o.res, o.val)
           /\ consumed' = IF o.took = <<>> THEN consumed
                          ELSE Append(consumed, [handle |-> id[t], data |-> o.took[1],
                                                 res |-> o.res])
    /\ UNCHANGED <<closed, next_id, sink, id, delivered, allocated, calls>>
    /\ UNCHANGED <<engineVars, pairVars>>

\* impl Write for Transport, write: to_vec fails before the lock is taken
WriteEncodeError(t, item) ==
    /\ pc[t] = "ready"
    /\ ~Serialize(item).ok
    /\ returned' = Returned(t, "write", id[t], "Serde", 0)
    /\ Events < MaxEvents
    /\ calls' = calls + 1
    /\ UNCHANGED <<stream, closed, waker, buffer, next_id, sink, lock, id, pc,
                   delivered, consumed, allocated>>
    /\ UNCHANGED <<engineVars, pairVars>>

LockWrite(t) ==
    /\ pc[t] = "ready"
    /\ Lock(t, "write")
    /\ returned' = NoResult
    /\ Events < MaxEvents
    /\ calls' = calls + 1
    /\ UNCHANGED <<stream, closed, waker, buffer, next_id, sink, id, delivered, consumed, allocated>>
    /\ UNCHANGED <<engineVars, pairVars>>

\* mutant: the prefix and the payload are handed to the sink as two items
WriteSplit(t, item, accepted) ==
    /\ pc[t] = "write"
    /\ Serialize(item).ok
    /\ IF accepted
       THEN /\ sink' = sink \o <<ToBeBytes(id[t]), Serialize(item).bytes>>
            /\ returned' = Returned(t, "write", id[t], "Ok", item.val)
       ELSE /\ sink' = sink
            /\ returned' = Returned(t, "write", id[t], "Sink", item.val)
    /\ Unlock(t, "ready")
    /\ UNCHANGED <<stream, closed, waker, buffer, next_id, id, delivered, consumed,
                   allocated, calls>>
    /\ UNCHANGED <<engineVars, pairVars>>

\* start_send(data) on the sink: accepted, or rejected with the sink's error
Write(t, item, accepted) ==
    /\ pc[t] = "write"
    /\ Serialize(item).ok
    /\ IF accepted
       THEN /\ sink' = Append(sink, ToBeBytes(id[t]) \o Serialize(item).bytes)
            /\ returned' = Returned(t, "write", id[t], "Ok", item.val)
       ELSE /\ sink' = sink
            /\ returned' = Returned(t, "write", id[t], "Sink", item.val)
    /\ Unlock(t, "ready")
    /\ UNCHANGED <<stream, closed, waker, buffer, next_id, id, delivered, consumed,
                   allocated, calls>>
    /\ UNCHANGED <<engineVars, pairVars>>

LockPoll(t, op) ==
    /\ pc[t] = "ready"
    /\ op \in {"poll_ready", "poll_flush"}
    /\ Lock(t, op)
    /\ returned' = NoResult
    /\ Events < MaxEvents
    /\ calls' = calls + 1
    /\ UNCHANGED <<stream, closed, waker, buffer, next_id, sink, id, delivered, consumed, allocated>>
    /\ UNCHANGED <<engineVars, pairVars>>

\* poll_ready / poll_flush: the sink answers Ready(Ok), Ready(Err) or Pending
SinkPoll(t, res) ==
    /\ pc[t] \in {"poll_ready", "poll_flush"}
    /\ res \in {"Ok", "Sink", "Pending"}
    /\ returned' = Returned(t, pc[t], id[t], res, 0)
    /\ Unlock(t, IF res = "Pending" THEN "sink_wait" ELSE "ready")
    /\ UNCHANGED <<stream, closed, waker, buffer, next_id, sink, id, delivered,
                   consumed, allocated, calls>>
    /\ UNCHANGED <<engineVars, pairVars>>

\* the sink wakes a driver that waits for capacity or for a flush
SinkWake(t) ==
    /\ pc[t] = "sink_wait"
    /\ pc' = [pc EXCEPT ![t] = "ready"]
    /\ returned' = NoResult
    /\ UNCHANGED <<stream, closed, waker, buffer, next_id, sink, lock, id, delivered, consumed, allocated, calls>>
    /\ UNCHANGED <<engineVars, pairVars>>

LockFork(t) ==
    /\ pc[t] = "ready"
    /\ Lock(t, "fork")
    /\ returned' = NoResult
    /\ Events < MaxEvents
    /\ calls' = calls + 1
    /\ UNCHANGED <<stream, closed, waker, buffer, next_id, sink, id, delivered, consumed, allocated>>
    /\ UNCHANGED <<engineVars, pairVars>>

\* mutant: the new context keeps the id of the context that forked it
ForkOutputOwnId(self, handle) ==
    [ctx |-> [inner |-> self.inner, id |-> self.id], num |-> handle]

\* ok((Transport { inner: self.inner.clone(), spawner: .., id }, id.0))
ForkOutput(self, handle) ==
    [ctx |-> [inner |-> self.inner, id |-> handle], num |-> handle]

\* ok(Transport { inner: self.inner.clone(), spawner: .., id: ContextHandle(id) })
JoinOutput(self, handle) == [inner |-> self.inner, id |-> handle]

\* The three flavors of fork, each from its own impl: next_id() on the
\* multiplexer whose counter is `current`, then the output.
\* impl CloneContext
fork_owned(self, current) ==
    [next_id |-> NextId(current).next_id, out |-> ForkOutput(self, NextId(current).handle)]

\* mutant: the shared flavor hands out the counter without advancing it
fork_shared_peek(self, current) ==
    [next_id |-> current, out |-> ForkOutput(self, current)]

\* impl ShareContext
fork_shared(self, current) ==
    [next_id |-> NextId(current).next_id, out |-> ForkOutput(self, NextId(current).handle)]

\* impl ReferenceContext
fork_ref(self, current) ==
    [next_id |-> NextId(current).next_id, out |-> ForkOutput(self, NextId(current).handle)]

join_owned(self, handle) == JoinOutput(self, handle)
join_shared(self, handle) == JoinOutput(self, handle)
join_ref(self, handle) == JoinOutput(self, handle)

Flavors == {"owned", "shared", "ref"}

ForkBy(flavor, self, current) ==
    CASE flavor = "owned" -> fork_owned(self, current)
      [] flavor = "shared" -> fork_shared(self, current)
      [] flavor = "ref" -> fork_ref(self, current)

JoinBy(flavor, self, handle) ==
    CASE flavor = "owned" -> join_owned(self, handle)
      [] flavor = "shared" -> join_shared(self, handle)
      [] flavor = "ref" -> join_ref(self, handle)

\* fork_owned / fork_shared / fork_ref, after self.inner.lock().unwrap() (the
\* same first step in the three of them): next_id() and the return
Fork(t, flavor) ==
    /\ pc[t] = "fork"
    /\ LET f == ForkBy(flavor, TransportOf(t), next_id)
       IN  /\ next_id' = f.next_id
           /\ allocated' = Append(allocated, [handle |-> f.out.num, flavor |-> flavor])
           /\ returned' = [Returned(t, "fork", f.out.num, "Ok", 0) EXCEPT !.ctx = f.out.ctx]
    /\ Unlock(t, "ready")
    /\ UNCHANGED <<stream, closed, waker, buffer, sink, id, delivered, consumed, calls>>
    /\ UNCHANGED <<engineVars, pairVars>>

\* join_owned / join_shared / join_ref: the Mutex is not taken
Join(t, flavor, handle) ==
    /\ pc[t] = "ready"
    /\ Events < MaxEvents
    /\ calls' = calls + 1
    /\ returned' = [Returned(t, "join", handle, "Ok", 0)
                       EXCEPT !.ctx = JoinBy(flavor, TransportOf(t), handle)]
    /\ UNCHANGED <<stream, closed, waker, buffer, next_id, sink, lock, id, pc,
                   delivered, consumed, allocated>>
    /\ UNCHANGED <<engineVars, pairVars>>

\* ---------------------------------------------------------- remote end
\* The stream keeps the waker of its latest Pending poll only (the contract of
\* Stream::poll_next; the mpsc receivers of the examples): when an item arrives
\* or the stream ends it wakes that one task and forgets it.
Wake(p) == IF waker = NoTask THEN p ELSE [p EXCEPT ![waker] = "woken"]

Deliver(item) ==
    /\ ~closed
    /\ Events < MaxEvents
    /\ stream' = Append(stream, item)
    /\ delivered' = Append(delivered, item)
    /\ pc' = Wake(pc)
    /\ waker' = NoTask
    /\ returned' = NoResult
    /\ UNCHANGED <<closed, buffer, next_id, sink, lock, id, consumed, allocated, calls>>
    /\ UNCHANGED <<engineVars, pairVars>>

Close ==
    /\ ~closed
    /\ closed' = TRUE
    /\ pc' = Wake(pc)
    /\ waker' = NoTask
    /\ returned' = NoResult
    /\ UNCHANGED <<stream, buffer, next_id, sink, lock, id, delivered,
                   consumed, allocated, calls>>
    /\ UNCHANGED <<engineVars, pairVars>>

\* ------------------------------------------------------------- engines
Engines == {"Unravel", "Coalesce"}
Faults == {"Serde", "Terminated"}

\* Unravel::new: root transport on handle 0, counter 1, fut = Target(item.unravel())
UnravelNew == [id |-> Handle(0), next_id |-> Handle(1), fut |-> "Target"]

\* mutant: both roles start at the same parity
CoalesceNewOdd == [id |-> Handle(0), next_id |-> Handle(1)]

\* Coalesce::new: root transport on handle 0, counter 2
CoalesceNew == [id |-> Handle(0), next_id |-> Handle(2)]

\* what one poll of a future of the value-protocol layer can return
Pending == [res |-> "Pending", err |-> "none"]
Ok == [res |-> "Ok", err |-> "none"]
Err(e) == [res |-> "Err", err |-> e]
FutureOutcomes == {Pending, Ok} \cup {Err(e) : e \in Faults}

Polled(future, outcome) == [future |-> future, res |-> outcome.res, err |-> outcome.err]

\* the Finalize arm of Unravel::poll: ready!(future.poll(..))?; return Ready(Ok(()))
FinalizeArm(before, finalize) ==
    [fut |-> "Finalize", out |-> finalize,
     polls |-> Append(before, Polled("Finalize", finalize))]

\* mutant: success is reported as soon as the Target future completes
UnravelPollSkipFinalize(state, target, finalize) ==
    IF state = "Target"
    THEN [fut |-> "Target", out |-> target, polls |-> <<Polled("Target", target)>>]
    ELSE FinalizeArm(<<>>, finalize)

\* mutant: a fault of the Target future does not end the poll
UnravelPollIgnoresTargetError(state, target, finalize) ==
    IF state = "Target"
    THEN IF target.res \in {"Ok", "Err"}
         THEN FinalizeArm(<<Polled("Target", target)>>, finalize)
         ELSE [fut |-> "Target", out |-> target, polls |-> <<Polled("Target", target)>>]
    ELSE FinalizeArm(<<>>, finalize)

\* Unravel::poll: the loop over UnravelState, given what the Target future and
\* the Finalize future answer when this call polls them
UnravelPoll(state, target, finalize) ==
    IF state = "Target"
    THEN IF target.res = "Ok"
         THEN FinalizeArm(<<Polled("Target", target)>>, finalize)
         ELSE [fut |-> "Target", out |-> target, polls |-> <<Polled("Target", target)>>]
    ELSE FinalizeArm(<<>>, finalize)

\* Coalesce::poll: the reconstruction future's answer is the engine's answer
CoalescePoll(outcome) ==
    [out |-> outcome, polls |-> <<Polled("Coalesce", outcome)>>]

Completed(e) == output[e].res \in {"Ok", "Err"}

\* a caller awaits the engine: it polls until the engine returns Ready
PollUnravel(target, finalize) ==
    /\ ~Completed("Unravel")
    /\ LET p == UnravelPoll(fut, target, finalize)
       IN  /\ p.out.res = "Pending" => Len(polled["Unravel"]) < MaxPending
           /\ fut' = p.fut
           /\ output' = [output EXCEPT !["Unravel"] = p.out]
           /\ polled' = [polled EXCEPT !["Unravel"] = @ \o p.polls]
    /\ UNCHANGED <<counter, root, forked, poisoned, spawned, launched>>
    /\ UNCHANGED <<muxVars, pairVars>>

PollCoalesce(outcome) ==
    /\ ~Completed("Coalesce")
    /\ LET p == CoalescePoll(outcome)
       IN  /\ p.out.res = "Pending" => Len(polled["Coalesce"]) < MaxPending
           /\ output' = [output EXCEPT !["Coalesce"] = p.out]
           /\ polled' = [polled EXCEPT !["Coalesce"] = @ \o p.polls]
    /\ UNCHANGED <<fut, counter, root, forked, poisoned, spawned, launched>>
    /\ UNCHANGED <<muxVars, pairVars>>

\* fork_owned / fork_shared / fork_ref on a transport of engine e's multiplexer
Allocate(e, flavor) ==
    /\ flavor \in Flavors
    /\ Len(forked[e]) < MaxForks
    /\ ~poisoned[e]
    /\ LET f == ForkBy(flavor, [inner |-> e, id |-> root[e]], counter[e])
       IN  /\ counter' = [counter EXCEPT ![e] = f.next_id]
           /\ forked' = [forked EXCEPT ![e] = Append(@, f.out.num)]
    /\ UNCHANGED <<fut, output, root, polled, poisoned, spawned, launched>>
    /\ UNCHANGED <<muxVars, pairVars>>

\* self.next_id += 2 past u32::MAX. A build without overflow checks wraps
\* (Allocate above, through U32Add2); a build with overflow checks panics in
\* next_id() with the MutexGuard alive: no handle is returned, the counter is
\* not written, the Mutex is poisoned and every later lock().unwrap() panics.
Overflows(h) == h[1] = Word - 1 /\ h[2] + 2 >= Word

AllocateOverflow(e, flavor) ==
    /\ flavor \in Flavors
    /\ Len(forked[e]) < MaxForks
    /\ ~poisoned[e]
    /\ Overflows(counter[e])
    /\ poisoned' = [poisoned EXCEPT ![e] = TRUE]
    /\ UNCHANGED <<fut, output, counter, root, forked, polled, spawned, launched>>
    /\ UNCHANGED <<muxVars, pairVars>>

\* -------------------------------------------------------- finalization
\* mutant: the launched task is given the root context of the multiplexer
ContextualizedRoot(self) ==
    [transport |-> [inner |-> self.inner, id |-> RootHandle], polled |-> FALSE,
     fut |-> Pending, out |-> "running"]

\* Contextualized { fut, transport: Transport { id: self.id, inner: self.inner.clone(), .. } }
\* as the spawner holds it: not polled yet, no output yet
Contextualized(self) ==
    [transport |-> [inner |-> self.inner, id |-> self.id], polled |-> FALSE,
     fut |-> Pending, out |-> "running"]

\* self.spawner.spawn(..): Ok(()) with the task queued, or Err(SpawnError)
SpawnerSpawn(task, accepts) ==
    IF accepts THEN [res |-> "Ok", tasks |-> <<task>>]
    ELSE [res |-> "SpawnError", tasks |-> <<>>]

\* impl Finalize: ready(self.spawner.spawn(Contextualized {..}.map(|_| ())))
finalize(self, accepts) == SpawnerSpawn(Contextualized(self), accepts)

\* impl FinalizeImmediate: self.spawner.spawn(Contextualized {..}.map(|_| ()))
finalize_immediate(self, accepts) == SpawnerSpawn(Contextualized(self), accepts)

\* mutant: the output of the launched future is passed on
MapKeep(outcome) == IF outcome.res = "Ok" THEN "unit" ELSE outcome.err

\* .map(|_| ()): whatever the launched future returns, the task's output is ()
MapUnit(outcome) == "unit"

\* the root transport of engine e
RootTransport(e) == [inner |-> e, id |-> root[e]]

\* a call of finalize or finalize_immediate on the root transport of engine e
Launch(kind, e, accepts) ==
    /\ kind \in {"finalize", "finalize_immediate"}
    /\ Len(launched) < MaxSpawns
    /\ LET r == IF kind = "finalize" THEN finalize(RootTransport(e), accepts)
                ELSE finalize_immediate(RootTransport(e), accepts)
       IN  /\ spawned' = spawned \o r.tasks
           /\ launched' = Append(launched, [kind |-> kind, res |-> r.res])
    /\ UNCHANGED <<fut, output, counter, root, forked, polled, poisoned>>
    /\ UNCHANGED <<muxVars, pairVars>>

\* a driver the spawner has not been given yet
Unspawned == "unspawned"

\* finalize / finalize_immediate called by driver t on its own transport (no
\* lock is taken); if the spawner accepts, u becomes the driver of the task:
\* Contextualized::poll hands the task's transport to every poll of its future
\* (fut.poll(cx, &mut this.transport)), so all u does goes through it.
LaunchOn(t, u, kind, accepts) ==
    /\ kind \in {"finalize", "finalize_immediate"}
    /\ pc[t] = "ready"
    /\ pc[u] = Unspawned
    /\ Len(launched) < MaxSpawns
    /\ LET r == IF kind = "finalize" THEN finalize(TransportOf(t), accepts)
                ELSE finalize_immediate(TransportOf(t), accepts)
       IN  /\ spawned' = spawned \o r.tasks
           /\ launched' = Append(launched, [kind |-> kind, res |-> r.res])
           /\ IF r.tasks # <<>>
              THEN /\ id' = [id EXCEPT ![u] = r.tasks[1].transport.id]
                   /\ pc' = [pc EXCEPT ![u] = "ready"]
              ELSE UNCHANGED <<id, pc>>
    /\ returned' = NoResult
    /\ UNCHANGED <<stream, closed, waker, buffer, next_id, sink, lock, delivered,
                   consumed, allocated, calls>>
    /\ UNCHANGED <<fut, output, counter, root, forked, polled, poisoned>>
    /\ UNCHANGED pairVars

\* the executor polls a spawned task: the launched future answers `outcome`
BackgroundPoll(i, outcome) ==
    /\ i \in DOMAIN spawned
    /\ spawned[i].out = "running"
    /\ spawned' = [spawned EXCEPT ![i] =
                     IF outcome.res = "Pending"
                     THEN [@ EXCEPT !.polled = TRUE]
                     ELSE [@ EXCEPT !.polled = TRUE, !.fut = outcome,
                                    !.out = MapUnit(outcome)]]
    /\ UNCHANGED <<fut, output, counter, root, forked, polled, poisoned, launched>>
    /\ UNCHANGED <<muxVars, pairVars>>

\* --------------------------------------------- two connected endpoints
\* The Unravel engine of endpoint A and the Coalesce engine of endpoint B over
\* a pair of in-memory channels (examples/stream.rs, examples/derive_*.rs):
\* what A's sink is handed is B's stream, in order. The decomposition and the
\* reconstruction of the root value belong to the value-protocol layer, which
\* is outside this repository; they are taken from the scenarios of the
\* specification: a flat value is one frame on the root handle; a stream is
\* forked onto a new handle, whose number goes out on the root handle, and a
\* task handed to finalize writes the items on the forked handle.

\* (0u8..10).map(|i| format!("{}", i)): the strings "0" .. "9"
StreamLen == 10
Digit == 48
StreamItem(k) == <<Digit + k - 1>>
ItemsOfStream == [k \in 1..StreamLen |-> StreamItem(k)]

Values == {[kind |-> "flat", val |-> v, items |-> <<>>] : v \in {0, 1}}
              \cup {[kind |-> "stream", val |-> 0, items |-> ItemsOfStream]}

\* bincode of a u32: four bytes, least significant first
BincodeU32(h) == <<h[2] % Byte, h[2] \div Byte, h[1] % Byte, h[1] \div Byte>>
FromBincodeU32(bytes) ==
    IF Len(bytes) = 4
    THEN [ok |-> TRUE, val |-> <<bytes[3] + bytes[4] * Byte, bytes[1] + bytes[2] * Byte>>]
    ELSE [ok |-> FALSE, val |-> RootHandle]

\* bincode of a String: the length as a u64, least significant byte first,
\* then the bytes of the string
BincodeString(str) == <<Len(str), 0, 0, 0, 0, 0, 0, 0>> \o str
FromBincodeString(bytes) ==
    IF /\ Len(bytes) >= 8
       /\ bytes[1] = Len(bytes) - 8
       /\ \A i \in 2..8 : bytes[i] = 0
    THEN [ok |-> TRUE, val |-> SubSeq(bytes, 9, Len(bytes))]
    ELSE [ok |-> FALSE, val |-> <<>>]

\* to_vec(&item) / from_slice::<I>(..) for the types of the scenarios
SerializeAs(ty, v) ==
    CASE ty = "bool" -> Serialize([encodable |-> TRUE, val |-> v]).bytes
      [] ty = "u32" -> BincodeU32(v)
      [] ty = "String" -> BincodeString(v)

\* Transport::write: data = self.id.0.to_be_bytes() ++ to_vec(&item)
WriteData(self, ty, v) == ToBeBytes(self.id) \o SerializeAs(ty, v)

\* TransportInner::read::<I>: the attempt of ReadAttempt, the frame it took
\* decoded as an I
ReadAs(ty, h, buf, strm) ==
    LET o == ReadAttempt(h, buf, strm, FALSE)
        d == IF o.took = <<>> THEN [ok |-> FALSE, val |-> 0]
             ELSE CASE ty = "bool" -> [ok |-> o.res = "Ok", val |-> o.val]
                    [] ty = "u32" -> FromBincodeU32(SubSeq(o.took[1], PrefixLen + 1,
                                                            Len(o.took[1])))
                    [] ty = "String" -> FromBincodeString(SubSeq(o.took[1], PrefixLen + 1,
                                                                  Len(o.took[1])))
    IN  [res |-> IF o.took = <<>> THEN o.res ELSE IF d.ok THEN "Ok" ELSE "Serde",
         val |-> d.val, buffer |-> o.buffer, stream |-> o.stream]

NoValue == "none"

PairIdle ==
    /\ value = [kind |-> "flat", val |-> 0, items |-> <<>>]
    /\ inbound = [e \in Engines |-> <<>>]
    /\ bufs = [e \in Engines |-> <<>>]
    /\ aroot = [pc |-> "start", ctx |-> NoContext, num |-> RootHandle, todo |-> {}]
    /\ abg = 0
    /\ broot = [pc |-> "coalesce", ctx |-> NoContext]
    /\ got = [root |-> NoValue, items |-> <<>>, fault |-> "none"]

\* the root task of A is through when nothing is left to do
ARootAfter(todo) == IF todo = {} THEN "done" ELSE "forked"
AOutputAfter(todo) == IF todo = {} THEN Ok ELSE output["Unravel"]

\* A, a flat value: one write on the root transport
AWriteFlat ==
    /\ value.kind = "flat"
    /\ aroot.pc = "start"
    /\ inbound' = [inbound EXCEPT !["Coalesce"] =
                     Append(@, OkItem(WriteData(aroot.ctx, "bool", value.val)))]
    /\ aroot' = [aroot EXCEPT !.pc = "done"]
    /\ output' = [output EXCEPT !["Unravel"] = Ok]
    /\ UNCHANGED <<fut, counter, root, forked, polled, poisoned, spawned, launched>>
    /\ UNCHANGED <<value, bufs, abg, broot, got>>
    /\ UNCHANGED muxVars

\* A, a stream: fork_owned on the root transport
AFork ==
    /\ value.kind = "stream"
    /\ aroot.pc = "start"
    /\ LET f == ForkBy("owned", aroot.ctx, counter["Unravel"])
       IN  /\ counter' = [counter EXCEPT !["Unravel"] = f.next_id]
           /\ forked' = [forked EXCEPT !["Unravel"] = Append(@, f.out.num)]
           /\ aroot' = [pc |-> "forked", ctx |-> f.out.ctx, num |-> f.out.num,
                        todo |-> {"write", "finalize"}]
    /\ UNCHANGED <<fut, output, root, polled, poisoned, spawned, launched>>
    /\ UNCHANGED <<value, inbound, bufs, abg, broot, got>>
    /\ UNCHANGED muxVars

\* A: the number of the forked handle is written on the root transport
AWriteHandle ==
    /\ aroot.pc = "forked"
    /\ "write" \in aroot.todo
    /\ inbound' = [inbound EXCEPT !["Coalesce"] =
                     Append(@, OkItem(WriteData(RootTransport("Unravel"), "u32", aroot.num)))]
    /\ aroot' = [aroot EXCEPT !.todo = @ \ {"write"}, !.pc = ARootAfter(aroot.todo \ {"write"})]
    /\ output' = [output EXCEPT !["Unravel"] = AOutputAfter(aroot.todo \ {"write"})]
    /\ UNCHANGED <<fut, counter, root, forked, polled, poisoned, spawned, launched>>
    /\ UNCHANGED <<value, bufs, abg, broot, got>>
    /\ UNCHANGED muxVars

\* A: the future that writes the items is handed to finalize on the forked
\* transport; the spawner of the examples (LocalSpawner of a live pool) takes it
AFinalize ==
    /\ aroot.pc = "forked"
    /\ "finalize" \in aroot.todo
    /\ LET r == finalize(aroot.ctx, TRUE)
       IN  /\ spawned' = spawned \o r.tasks
           /\ launched' = Append(launched, [kind |-> "finalize", res |-> r.res])
    /\ aroot' = [aroot EXCEPT !.todo = @ \ {"finalize"},
                              !.pc = ARootAfter(aroot.todo \ {"finalize"})]
    /\ output' = [output EXCEPT !["Unravel"] = AOutputAfter(aroot.todo \ {"finalize"})]
    /\ UNCHANGED <<fut, counter, root, forked, polled, poisoned>>
    /\ UNCHANGED <<value, inbound, bufs, abg, broot, got>>
    /\ UNCHANGED muxVars

\* A, the launched task: the next item is written on the task's transport
ABackgroundWrite ==
    /\ spawned # <<>>
    /\ abg < Len(value.items)
    /\ inbound' = [inbound EXCEPT !["Coalesce"] =
                     Append(@, OkItem(WriteData(spawned[1].transport, "String",
                                                value.items[abg + 1])))]
    /\ abg' = abg + 1
    /\ spawned' = IF abg + 1 < Len(value.items) THEN [spawned EXCEPT ![1].polled = TRUE]
                  ELSE [spawned EXCEPT ![1].polled = TRUE, ![1].fut = Ok,
                                       ![1].out = MapUnit(Ok)]
    /\ UNCHANGED <<fut, output, counter, root, forked, polled, poisoned, launched>>
    /\ UNCHANGED <<value, bufs, aroot, broot, got>>
    /\ UNCHANGED muxVars

\* B: one attempt of the read the task is waiting in. Pending leaves the task
\* where it is (it is the one reader of B: every item that arrives wakes it).
BRead ==
    /\ broot.pc \in {"coalesce", "drain"}
    /\ LET ty == IF broot.pc = "drain" THEN "String"
                 ELSE IF value.kind = "flat" THEN "bool" ELSE "u32"
           o == ReadAs(ty, broot.ctx.id, bufs["Coalesce"], inbound["Coalesce"])
       IN  /\ bufs' = [bufs EXCEPT !["Coalesce"] = o.buffer]
           /\ inbound' = [inbound EXCEPT !["Coalesce"] = o.stream]
           /\ CASE o.res = "Pending" -> UNCHANGED <<broot, got, output>>
                [] o.res = "Ok" /\ ty = "bool" ->
                      /\ got' = [got EXCEPT !.root = o.val]
                      /\ broot' = [broot EXCEPT !.pc = "done"]
                      /\ output' = [output EXCEPT !["Coalesce"] = Ok]
                [] o.res = "Ok" /\ ty = "u32" ->
                      /\ got' = [got EXCEPT !.root = o.val]
                      /\ broot' = [pc |-> "drain", ctx |-> JoinBy("owned", broot.ctx, o.val)]
                      /\ output' = [output EXCEPT !["Coalesce"] = Ok]
                [] o.res = "Ok" /\ ty = "String" ->
                      /\ got' = [got EXCEPT !.items = Append(@, o.val)]
                      /\ broot' = [broot EXCEPT !.pc =
                                     IF Len(got.items) + 1 = Len(value.items)
                                     THEN "done" ELSE "drain"]
                      /\ UNCHANGED output
                [] OTHER ->
                      /\ got' = [got EXCEPT !.fault = o.res]
                      /\ broot' = [broot EXCEPT !.pc = "failed"]
                      /\ output' = IF broot.pc = "coalesce"
                                   THEN [output EXCEPT !["Coalesce"] = Err("Serde")]
                                   ELSE output
    /\ UNCHANGED <<fut, counter, root, forked, polled, poisoned, spawned, launched>>
    /\ UNCHANGED <<value, aroot, abg>>
    /\ UNCHANGED muxVars

PairNext ==
    \/ AWriteFlat
    \/ AFork
    \/ AWriteHandle
    \/ AFinalize
    \/ ABackgroundWrite
    \/ BRead

\* ------------------------------------------------------- specification
MuxInit ==
    /\ stream = <<>>
    /\ closed = FALSE
    /\ waker = NoTask
    /\ buffer = <<>>
    /\ next_id \in {UnravelNew.next_id, CoalesceNew.next_id}
    /\ sink = <<>>
    /\ lock = NoTask
    /\ id \in {f \in [Tasks -> TaskHandles] : f["t1"] = RootHandle}
    /\ pc = [t \in Tasks |-> "ready"]
    /\ returned = NoResult
    /\ delivered = <<>>
    /\ consumed = <<>>
    /\ allocated = <<>>
    /\ calls = 0

EngineInit ==
    /\ fut = UnravelNew.fut
    /\ output = [e \in Engines |-> Pending]
    /\ counter = [e \in Engines |->
                    IF e = "Unravel" THEN UnravelNew.next_id ELSE CoalesceNew.next_id]
    /\ root = [e \in Engines |-> IF e = "Unravel" THEN UnravelNew.id ELSE CoalesceNew.id]
    /\ forked = [e \in Engines |-> <<>>]
    /\ polled = [e \in Engines |-> <<>>]
    /\ poisoned = [e \in Engines |-> FALSE]
    /\ spawned = <<>>
    /\ launched = <<>>

Init == MuxInit /\ EngineInit /\ PairIdle

\* Unravel::new(stream, sink, spawner, item) and Coalesce::new(stream, sink, spawner)
PairInit ==
    /\ MuxInit
    /\ next_id = UnravelNew.next_id
    /\ id = [t \in Tasks |-> UnravelNew.id]
    /\ EngineInit
    /\ value \in Values
    /\ inbound = [e \in Engines |-> <<>>]
    /\ bufs = [e \in Engines |-> <<>>]
    /\ aroot = [pc |-> "start", ctx |-> RootTransport("Unravel"), num |-> RootHandle,
                todo |-> {}]
    /\ abg = 0
    /\ broot = [pc |-> "coalesce", ctx |-> RootTransport("Coalesce")]
    /\ got = [root |-> NoValue, items |-> <<>>, fault |-> "none"]

Next ==
    \/ \E t \in Tasks : LockRead(t)
    \/ \E t \in Tasks : Read(t)
    \/ \E t \in Tasks, item \in WriteItems : WriteEncodeError(t, item)
    \/ \E t \in Tasks : LockWrite(t)
    \/ \E t \in Tasks, item \in WriteItems, accepted \in BOOLEAN : Write(t, item, accepted)
    \/ \E t \in Tasks, op \in {"poll_ready", "poll_flush"} : LockPoll(t, op)
    \/ \E t \in Tasks, res \in {"Ok", "Sink", "Pending"} : SinkPoll(t, res)
    \/ \E t \in Tasks : SinkWake(t)
    \/ \E t \in Tasks : LockFork(t)
    \/ \E t \in Tasks, flavor \in Flavors : Fork(t, flavor)
    \/ \E t \in Tasks, flavor \in Flavors, handle \in JoinHandles : Join(t, flavor, handle)
    \/ \E item \in StreamItems : Deliver(item)
    \/ Close

Spec == Init /\ [][Next]_vars

\* A woken task is polled again by its executor, and an operation that holds
\* the lock runs to its return.
Resume(t) == pc[t] = "woken" /\ LockRead(t)

Fairness ==
    \A t \in Tasks :
        /\ SF_vars(Resume(t))
        /\ WF_vars(Read(t))
        /\ WF_vars(\E item \in WriteItems, accepted \in BOOLEAN : Write(t, item, accepted))
        /\ WF_vars(\E res \in {"Ok", "Sink", "Pending"} : SinkPoll(t, res))
        /\ WF_vars(\E flavor \in Flavors : Fork(t, flavor))

FairSpec == Init /\ [][Next]_vars /\ Fairness

EngineNext ==
    \/ \E target \in FutureOutcomes, answer \in FutureOutcomes : PollUnravel(target, answer)
    \/ \E outcome \in FutureOutcomes : PollCoalesce(outcome)
    \/ \E e \in Engines, flavor \in Flavors : Allocate(e, flavor)

EngineSpec == Init /\ [][EngineNext]_vars

\* The Unravel engine, the calls of finalize and finalize_immediate made on
\* the root transports, and the executor running the tasks they launched.
FinalizeNext ==
    \/ \E target \in FutureOutcomes, answer \in FutureOutcomes : PollUnravel(target, answer)
    \/ \E kind \in {"finalize", "finalize_immediate"}, e \in Engines, accepts \in BOOLEAN :
          Launch(kind, e, accepts)
    \/ \E i \in 1..MaxSpawns, outcome \in FutureOutcomes : BackgroundPoll(i, outcome)

\* the multiplexer of Spec stays as the Unravel side constructs it
FinalizeInit ==
    /\ Init
    /\ next_id = UnravelNew.next_id
    /\ id = [t \in Tasks |-> UnravelNew.id]

FinalizeSpec == FinalizeInit /\ [][FinalizeNext]_vars

\* The engines late in the life of a connection: the multiplexer of the Unravel
\* side has made 2^31 - 2 allocations (1, 3, .., 0xFFFFFFFB), the one of the
\* Coalesce side 2^31 - 3 (2, 4, .., 0xFFFFFFFA). forked holds the allocations
\* made from here on.
LateCounter(e) ==
    IF e = "Unravel" THEN <<Word - 1, Word - 3>> ELSE <<Word - 1, Word - 4>>

LateInit ==
    /\ MuxInit
    /\ fut = UnravelNew.fut
    /\ output = [e \in Engines |-> Pending]
    /\ counter = [e \in Engines |-> LateCounter(e)]
    /\ root = [e \in Engines |-> IF e = "Unravel" THEN UnravelNew.id ELSE CoalesceNew.id]
    /\ forked = [e \in Engines |-> <<>>]
    /\ polled = [e \in Engines |-> <<>>]
    /\ poisoned = [e \in Engines |-> FALSE]
    /\ spawned = <<>>
    /\ launched = <<>>
    /\ PairIdle

LateNext ==
    \/ EngineNext
    \/ \E e \in Engines, flavor \in Flavors : AllocateOverflow(e, flavor)

LateSpec == LateInit /\ [][LateNext]_vars

\* The write side of one multiplexer, used by the drivers while the Unravel
\* engine that owns the root transport is polled to its end, which may be a
\* fault: the launched tasks keep their transports and go on writing.
WriteNext ==
    \/ \E t \in Tasks, item \in WriteItems : WriteEncodeError(t, item)
    \/ \E t \in Tasks : LockWrite(t)
    \/ \E t \in Tasks, item \in WriteItems, accepted \in BOOLEAN : Write(t, item, accepted)
    \/ \E t \in Tasks, op \in {"poll_ready", "poll_flush"} : LockPoll(t, op)
    \/ \E t \in Tasks, res \in {"Ok", "Sink", "Pending"} : SinkPoll(t, res)
    \/ \E t \in Tasks : SinkWake(t)
    \/ \E target \in FutureOutcomes, answer \in FutureOutcomes : PollUnravel(target, answer)

WriteSpec == Init /\ [][WriteNext]_vars

\* One multiplexer of the Unravel side with a driver t1 on the root context or
\* on the context of the first fork, which launches a task with finalize or
\* finalize_immediate; the task, once the spawner has it, is the driver t2,
\* whose reads and writes are the ones followed.
LaunchInit ==
    /\ \E first \in BOOLEAN :
          /\ next_id = (IF first THEN NextId(UnravelNew.next_id).next_id
                        ELSE UnravelNew.next_id)
          /\ id = [t \in Tasks |->
                     IF first /\ t = "t1" THEN NextId(UnravelNew.next_id).handle
                     ELSE UnravelNew.id]
          /\ allocated = (IF first
                          THEN <<[handle |-> NextId(UnravelNew.next_id).handle,
                                  flavor |-> "owned"]>>
                          ELSE <<>>)
    /\ pc = [t \in Tasks |-> IF t = "t1" THEN "ready" ELSE Unspawned]
    /\ stream = <<>>
    /\ closed = FALSE
    /\ waker = NoTask
    /\ buffer = <<>>
    /\ sink = <<>>
    /\ lock = NoTask
    /\ returned = NoResult
    /\ delivered = <<>>
    /\ consumed = <<>>
    /\ calls = 0
    /\ EngineInit
    /\ PairIdle

LaunchNext ==
    \/ \E kind \in {"finalize", "finalize_immediate"}, accepts \in BOOLEAN :
          LaunchOn("t1", "t2", kind, accepts)
    \/ LockRead("t2")
    \/ Read("t2")
    \/ \E item \in WriteItems : WriteEncodeError("t2", item)
    \/ LockWrite("t2")
    \/ \E item \in WriteItems, accepted \in BOOLEAN : Write("t2", item, accepted)
    \/ \E item \in StreamItems : Deliver(item)
    \/ Close

LaunchSpec == LaunchInit /\ [][LaunchNext]_vars

\* pool.run(): every task that can run is run
PairFairness ==
    /\ WF_vars(AWriteFlat) /\ WF_vars(AFork) /\ WF_vars(AWriteHandle) /\ WF_vars(AFinalize)
    /\ WF_vars(ABackgroundWrite)
    /\ WF_vars(BRead)

PairSpec == PairInit /\ [][PairNext]_vars /\ PairFairness

\* ---------------------------------------------------------------- claims
IsPrefix(a, b) == Len(a) <= Len(b) /\ SubSeq(b, 1, Len(a)) = a
WellFormed(item) == ~item.err /\ Len(item.data) >= PrefixLen
PrefixOf(data) == FromBeBytes(SubSeq(data, 1, PrefixLen))
PayloadOf(data) == SubSeq(data, PrefixLen + 1, Len(data))
DataOf(s) == [i \in DOMAIN s |-> s[i].data]
PayloadsOf(s) == [i \in DOMAIN s |-> PayloadOf(s[i].data)]

\* the frames with prefix h among the items of a sequence of stream items
FramesFor(items, h) ==
    LET Mine(item) == WellFormed(item) /\ PrefixOf(item.data) = h
    IN  SelectSeq(items, Mine)

\* the frames taken by the reads for h, and those among them returned as Ok
TakenBy(h) ==
    LET Mine(c) == c.handle = h
    IN  SelectSeq(consumed, Mine)
ReturnedOkBy(h) ==
    LET Mine(c) == c.handle = h /\ c.res = "Ok"
    IN  SelectSeq(consumed, Mine)

ReadReturns(t) == pc[t] = "read" /\ pc'[t] # "read"
Suspended(t) == pc[t] = "suspended"

\* C1 as stated: the payloads returned by the successful reads for h are a
\* prefix of the payloads of the frames with prefix h that the stream delivered.
C1_SuccessfulReadsArePrefix ==
    \A h \in TaskHandles :
        IsPrefix(PayloadsOf(ReturnedOkBy(h)), PayloadsOf(FramesFor(delivered, h)))

\* C1 amended: the frames taken by the reads for h, each returned as Ok or
\* failed with Serde, are a prefix of the frames with prefix h in arrival order;
\* a read returns Ok exactly for a payload that decodes, with its decoded value.
C1_TakenFramesArePrefix ==
    /\ \A h \in TaskHandles : IsPrefix(DataOf(TakenBy(h)), DataOf(FramesFor(delivered, h)))
    /\ \A i \in DOMAIN consumed :
          /\ PrefixOf(consumed[i].data) = consumed[i].handle
          /\ consumed[i].res = (IF Deserialize(PayloadOf(consumed[i].data)).ok
                                THEN "Ok" ELSE "Serde")
    /\ (returned.op = "read" /\ returned.res = "Ok") =>
          /\ consumed # <<>>
          /\ consumed[Len(consumed)].handle = returned.handle
          /\ PayloadOf(consumed[Len(consumed)].data) = <<returned.val>>

\* two frames of one handle were read, the second one out of the buffer queue
\* after a read for another handle had put it there
C1_Witness ==
    /\ Len(consumed) = 2
    /\ consumed[1].handle = consumed[2].handle
    /\ consumed[1].data # consumed[2].data
    /\ consumed[1].res = "Ok" /\ consumed[2].res = "Ok"
    /\ stream = <<>>
    /\ \E t \in Tasks : id[t] # consumed[1].handle /\ Suspended(t)

\* C2 as stated, in its closing clause: no reader stays suspended forever
\* while a frame for its handle sits in the buffer queue of its handle (where
\* another context's read has put it).
Starved(t) == Suspended(t) /\ BufGet(buffer, id[t]) # <<>>

C2_SuspendedReaderIsResumed == \A t \in Tasks : Starved(t) ~> ~Starved(t)

\* C4: a read attempt for h that finds the queue of h empty and the stream
\* ended, with nothing but frames of other handles left in it, returns
\* Terminated and does not suspend; those frames are in their queues afterwards.
C4_EarlyTermination ==
    [][\A t \in Tasks :
         (/\ ReadReturns(t)
          /\ closed
          /\ BufGet(buffer, id[t]) = <<>>
          /\ \A i \in DOMAIN stream :
                WellFormed(stream[i]) /\ PrefixOf(stream[i].data) # id[t])
         => /\ returned' = Returned(t, "read", id[t], "Terminated", 0)
            /\ pc'[t] = "ready"
            /\ stream' = <<>>
            /\ \A k \in WireHandles :
                  BufGet(buffer', k) = BufGet(buffer, k) \o DataOf(FramesFor(stream, k))]_vars

\* a read returned Terminated with a frame of another handle buffered
C4_Witness ==
    /\ returned.op = "read"
    /\ returned.res = "Terminated"
    /\ closed
    /\ \E k \in WireHandles : k # returned.handle /\ BufGet(buffer, k) # <<>>

\* C5 as stated: with an item shorter than 4 bytes next on the stream, the next
\* read attempt fails with Insufficient, for any handle and any buffer state.
C5_ShortItemFailsAnyRead ==
    [][\A t \in Tasks :
         (/\ ReadReturns(t)
          /\ stream # <<>>
          /\ ~Head(stream).err
          /\ Len(Head(stream).data) < PrefixLen)
         => returned'.res = "Insufficient"]_vars

\* C5 amended: ... the next read attempt for a handle whose buffer queue is
\* empty fails with Insufficient, and the short item is gone from the stream.
C5_ShortItemFailsPollingRead ==
    [][\A t \in Tasks :
         (/\ ReadReturns(t)
          /\ stream # <<>>
          /\ ~Head(stream).err
          /\ Len(Head(stream).data) < PrefixLen
          /\ BufGet(buffer, id[t]) = <<>>)
         => /\ returned' = Returned(t, "read", id[t], "Insufficient", 0)
            /\ stream' = Tail(stream)
            /\ buffer' = buffer]_vars

\* a read failed with Insufficient on a short item that was delivered
C5_Witness ==
    /\ returned.op = "read"
    /\ returned.res = "Insufficient"
    /\ \E i \in DOMAIN delivered : ~delivered[i].err /\ Len(delivered[i].data) < PrefixLen

\* C6 as stated: once the stream has ended and is drained, every reader
\* suspended on a handle with an empty queue returns (Terminated).
C6_ClosureReachesEveryReader ==
    \A t \in Tasks :
        (Suspended(t) /\ closed /\ stream = <<>> /\ BufGet(buffer, id[t]) = <<>>)
            ~> ~Suspended(t)

\* C7: at most one driver is inside a multiplexer operation, and it is the
\* holder of the lock; a suspended driver does not hold the lock; the driver
\* that has just returned, with a value, an error or Pending, does not hold it.
InOperation(t) == pc[t] \in {"read", "write", "poll_ready", "poll_flush", "fork"}

C7_LockDiscipline ==
    /\ \A t \in Tasks : InOperation(t) <=> lock = t
    /\ Cardinality({t \in Tasks : InOperation(t)}) <= 1
    /\ \A t \in Tasks : pc[t] \in {"suspended", "sink_wait"} => lock # t
    /\ returned # NoResult => lock # returned.task

\* one driver is suspended in read, another waits for the sink, the lock is free
C7_Witness ==
    /\ \E t, u \in Tasks : pc[t] = "suspended" /\ pc[u] = "sink_wait"
    /\ returned.res = "Pending"
    /\ lock = NoTask

\* ------------------------------------------------- claims on the engines
Odd(h) == h[2] % 2 = 1
Range(s) == {s[i] : i \in DOMAIN s}
UnravelPolls == polled["Unravel"]
CoalescePolls == polled["Coalesce"]
TargetOkAt(i) == UnravelPolls[i].future = "Target" /\ UnravelPolls[i].res = "Ok"

\* C3: the handles allocated by the Unravel-side multiplexer are odd, those
\* allocated by the Coalesce-side multiplexer are even, and no handle is
\* allocated on both sides, however many allocations each side has made.
C3_HandlesDisjoint ==
    /\ \A h \in Range(forked["Unravel"]) : Odd(h)
    /\ \A h \in Range(forked["Coalesce"]) : ~Odd(h)
    /\ Range(forked["Unravel"]) \cap Range(forked["Coalesce"]) = {}

\* both sides have allocated, one of them more often than the other
C3_Witness ==
    /\ Len(forked["Unravel"]) = 1
    /\ Len(forked["Coalesce"]) >= 2

\* C8: the engine is in Finalize exactly when a poll of the Target future has
\* returned Ok; the poll that sees Target return Ok polls the Finalize future
\* next, in the same call; no Target poll follows a Finalize poll; Ok is
\* returned only after the Finalize future returned Ok; Finalize is never left.
C8_PhaseOrder ==
    /\ [](/\ UnravelPolls = <<>> => fut = "Target"
          /\ fut = "Finalize" <=> \E i \in DOMAIN UnravelPolls : TargetOkAt(i)
          /\ \A i \in DOMAIN UnravelPolls :
                TargetOkAt(i) =>
                    /\ i < Len(UnravelPolls)
                    /\ \A j \in DOMAIN UnravelPolls :
                          j > i => UnravelPolls[j].future = "Finalize"
          /\ output["Unravel"].res = "Ok" =>
                /\ UnravelPolls # <<>>
                /\ UnravelPolls[Len(UnravelPolls)] = Polled("Finalize", Ok))
    /\ [][fut = "Finalize" => fut' = "Finalize"]_vars

\* the engine succeeded after a Pending poll in each phase
C8_Witness ==
    /\ output["Unravel"].res = "Ok"
    /\ \E i, j \in DOMAIN UnravelPolls :
          /\ UnravelPolls[i] = Polled("Target", Pending)
          /\ UnravelPolls[j] = Polled("Finalize", Pending)

\* C9: a fault of the Target, Finalize or reconstruction future is the last
\* thing its engine polls and is what the engine returns; after a Target fault
\* the Finalize future has not been polled; an engine returns no other fault.
C9_FaultPropagation ==
    /\ \A e \in Engines :
          /\ \A i \in DOMAIN polled[e] :
                polled[e][i].res = "Err" =>
                    /\ i = Len(polled[e])
                    /\ output[e] = Err(polled[e][i].err)
          /\ output[e].res = "Err" =>
                /\ polled[e] # <<>>
                /\ polled[e][Len(polled[e])].res = "Err"
    /\ \A i \in DOMAIN UnravelPolls :
          (UnravelPolls[i].future = "Target" /\ UnravelPolls[i].res = "Err") =>
              /\ fut = "Target"
              /\ \A j \in DOMAIN UnravelPolls : UnravelPolls[j].future = "Target"

\* the Target future failed on one side and the reconstruction future on the other
C9_Witness ==
    /\ output["Unravel"].res = "Err"
    /\ UnravelPolls[Len(UnravelPolls)].future = "Target"
    /\ Len(UnravelPolls) > 1
    /\ output["Coalesce"].res = "Err"
    /\ output["Coalesce"].err # output["Unravel"].err

\* the Finalize future failed
C9_WitnessFinalize ==
    /\ output["Unravel"].res = "Err"
    /\ UnravelPolls[Len(UnravelPolls)].future = "Finalize"

\* C10: both engines' root transports have id 0; the k-th allocation returns
\* 2k-1 on the Unravel side and 2k on the Coalesce side, whichever flavor of
\* fork performs it, and the counter is 2 past the last handle returned.
C10_HandleNumbering ==
    /\ \A e \in Engines : root[e] = Handle(0)
    /\ \A k \in DOMAIN forked["Unravel"] : forked["Unravel"][k] = Handle(2 * k - 1)
    /\ \A k \in DOMAIN forked["Coalesce"] : forked["Coalesce"][k] = Handle(2 * k)
    /\ counter["Unravel"] = Handle(2 * Len(forked["Unravel"]) + 1)
    /\ counter["Coalesce"] = Handle(2 * Len(forked["Coalesce"]) + 2)

\* three allocations on each side
C10_Witness ==
    /\ Len(forked["Unravel"]) >= 3
    /\ Len(forked["Coalesce"]) >= 3

\* ------------------------------------------- claims on the 32-bit counter
Less(a, b) == a[1] < b[1] \/ (a[1] = b[1] /\ a[2] < b[2])
FirstHandle(e) == IF e = "Unravel" THEN UnravelNew.next_id ELSE CoalesceNew.next_id

\* the handles the multiplexer of e returned before the allocations of forked:
\* those of its parity from its first handle up to where forked starts
AllocatedEarlier(e, h) ==
    LET start == IF forked[e] = <<>> THEN counter[e] ELSE forked[e][1]
    IN  /\ Odd(h) = Odd(FirstHandle(e))
        /\ ~Less(h, FirstHandle(e))
        /\ Less(h, start)

\* C11 as stated: no allocation returns the root handle 0 and none returns a
\* handle that an earlier allocation of the same multiplexer returned, also
\* when the counter passes the top of the 32-bit range.
C11_NoReuseRootReserved ==
    \A e \in Engines :
        \A i \in DOMAIN forked[e] :
            /\ forked[e][i] # RootHandle
            /\ \A j \in DOMAIN forked[e] : j # i => forked[e][j] # forked[e][i]
            /\ i > 1 => ~AllocatedEarlier(e, forked[e][i])

\* ------------------------------------------------ claims on fork and join
Val(h) == h[1] * Word + h[2]
ForkReturns(t) == pc[t] = "fork" /\ pc'[t] # "fork"
JoinReturns(t) == returned'.op = "join" /\ returned'.task = t /\ calls' = calls + 1

\* C12: a fork advances the counter by exactly 2 and returns a context whose
\* id is the numeric id returned with it and whose multiplexer is the
\* caller's; a join returns a context with the id given and the caller's
\* multiplexer and leaves counter, buffer map, stream and sink unchanged.
C12_ForkJoinEffects ==
    [][\A t \in Tasks :
         /\ ForkReturns(t) =>
               /\ Val(next_id') = Val(next_id) + 2
               /\ returned'.op = "fork" /\ returned'.task = t /\ returned'.res = "Ok"
               /\ returned'.ctx.id = returned'.handle
               /\ returned'.ctx.inner = TransportOf(t).inner
         /\ JoinReturns(t) =>
               /\ returned'.res = "Ok"
               /\ returned'.ctx.id = returned'.handle
               /\ returned'.ctx.inner = TransportOf(t).inner
               /\ UNCHANGED <<next_id, buffer, stream, sink>>]_vars

\* a driver on handle 1 joined the id 2 after a fork had moved the counter
C12_Witness ==
    /\ returned.op = "join"
    /\ returned.handle = Handle(2)
    /\ id[returned.task] = Handle(1)
    /\ allocated # <<>>

\* a fork by a driver on handle 1 has returned
C12_WitnessFork ==
    /\ returned.op = "fork"
    /\ id[returned.task] = Handle(1)

\* C13: on every multiplexer state and for every caller the three flavors of
\* fork give the same counter and the same output, and the three flavors of
\* join the same context; the handles returned by any mix of flavors, issued
\* by the drivers interleaved on one multiplexer, are pairwise distinct.
C13_OneAllocationMechanism ==
    /\ \A t \in Tasks :
          /\ fork_owned(TransportOf(t), next_id) = fork_shared(TransportOf(t), next_id)
          /\ fork_shared(TransportOf(t), next_id) = fork_ref(TransportOf(t), next_id)
          /\ \A h \in JoinHandles :
                /\ join_owned(TransportOf(t), h) = join_shared(TransportOf(t), h)
                /\ join_shared(TransportOf(t), h) = join_ref(TransportOf(t), h)
    /\ \A i, j \in DOMAIN allocated :
          i # j => allocated[i].handle # allocated[j].handle

\* two forks of different flavors by different drivers, the second one taking
\* the lock while the first was still to return
C13_Witness ==
    /\ Len(allocated) = 2
    /\ allocated[1].flavor # allocated[2].flavor
    /\ returned.op = "fork"
    /\ \E t \in Tasks : t # returned.task /\ id[t] # id[returned.task]

\* ------------------------------------------------- claims on finalization
LaunchStep == Len(launched') = Len(launched) + 1
BackgroundStep == spawned' # spawned /\ launched' = launched

\* C14: a call of finalize or finalize_immediate returns Ok exactly when the
\* spawner took the task, and then the task has not been polled at the return;
\* it returns the spawn error exactly when the spawner took nothing. What a
\* launched future returns, success or fault, is dropped: the task's output is
\* the unit value, and a step of a launched task changes neither what the
\* launches returned nor the state and result of the root engine.
C14_FinalizationScheduling ==
    /\ [](/\ \A i \in DOMAIN launched : launched[i].res \in {"Ok", "SpawnError"}
          /\ \A i \in DOMAIN spawned :
                /\ spawned[i].out \in {"running", "unit"}
                /\ spawned[i].out = "unit" <=> spawned[i].fut.res \in {"Ok", "Err"})
    /\ [][/\ LaunchStep =>
               LET r == launched'[Len(launched')]
               IN  /\ SubSeq(launched', 1, Len(launched)) = launched
                   /\ r.res = "Ok" =>
                         /\ Len(spawned') = Len(spawned) + 1
                         /\ SubSeq(spawned', 1, Len(spawned)) = spawned
                         /\ ~spawned'[Len(spawned')].polled
                         /\ spawned'[Len(spawned')].out = "running"
                   /\ r.res = "SpawnError" => spawned' = spawned
                   /\ UNCHANGED <<fut, output>>
          /\ BackgroundStep => UNCHANGED <<fut, output, launched>>]_vars

\* the root engine had returned Ok, a launch was refused, and afterwards a
\* launched task had its future fail
C14_Witness ==
    /\ output["Unravel"] = Ok
    /\ \E i \in DOMAIN launched : launched[i].res = "SpawnError"
    /\ \E i \in DOMAIN spawned :
          /\ spawned[i].fut.res = "Err"
          /\ spawned[i].out = "unit"

\* --------------------------------------------------------- claims on write
\* a step in which a write of driver t returns: the encoding failed before the
\* lock was taken, or start_send answered under the lock
WriteReturns(t) ==
    /\ returned'.op = "write"
    /\ returned'.task = t
    /\ pc[t] = "write" \/ (pc[t] = "ready" /\ calls' = calls + 1)

BytesValue(b) == ((b[1] * Byte + b[2]) * Byte + b[3]) * Byte + b[4]

\* C15: a write that returns Ok has handed the sink exactly one item: four
\* bytes, the big-endian number of the context's id, which decode to that id,
\* followed by the encoding of the value; a write that returns Serde never took
\* the lock and one that returns Sink was refused by the sink, and either
\* leaves the sink as it was; no write changes the buffer map or the counter.
C15_WriteFraming ==
    [][\A t \in Tasks :
         WriteReturns(t) =>
            /\ returned'.res \in {"Ok", "Serde", "Sink"}
            /\ returned'.handle = id[t]
            /\ returned'.res = "Ok" =>
                  /\ pc[t] = "write"
                  /\ Len(sink') = Len(sink) + 1
                  /\ SubSeq(sink', 1, Len(sink)) = sink
                  /\ LET data == sink'[Len(sink')]
                     IN  /\ Len(data) = PrefixLen + 1
                         /\ BytesValue(SubSeq(data, 1, PrefixLen)) = Val(id[t])
                         /\ FromBeBytes(SubSeq(data, 1, PrefixLen)) = id[t]
                         /\ SubSeq(data, PrefixLen + 1, Len(data)) = <<returned'.val>>
                         /\ Deserialize(SubSeq(data, PrefixLen + 1, Len(data))).val
                                = returned'.val
            /\ returned'.res = "Serde" => pc[t] = "ready" /\ lock' = lock /\ sink' = sink
            /\ returned'.res = "Sink" => pc[t] = "write" /\ sink' = sink
            /\ buffer' = buffer
            /\ next_id' = next_id]_vars

\* two drivers on different handles have each written a frame, with different
\* values
C15_Witness ==
    /\ returned.op = "write"
    /\ returned.res = "Ok"
    /\ Len(sink) = 2
    /\ FromBeBytes(SubSeq(sink[1], 1, PrefixLen)) = Handle(1)
    /\ FromBeBytes(SubSeq(sink[2], 1, PrefixLen)) = Handle(0)
    /\ sink[1][PrefixLen + 1] # sink[2][PrefixLen + 1]

\* ------------------------------------------ claims on the two endpoints
CoalesceCompletes == output["Coalesce"] # Ok /\ output'["Coalesce"] = Ok
BReadStep == bufs' # bufs \/ (inbound' # inbound /\ Len(inbound'["Coalesce"]) < Len(inbound["Coalesce"]))
HandleWritten == aroot.pc \in {"forked", "done"} /\ "write" \notin aroot.todo

\* C16: with Unravel given v on one end of a connected pair and Coalesce on
\* the other, Coalesce completes, and what it completes with equals v: the
\* same flat value, or a stream on the handle v's stream was forked onto that
\* yields the items of v.
C16_RoundTrip ==
    /\ [](output["Coalesce"] = Ok =>
            /\ value.kind = "flat" => got.root = value.val
            /\ value.kind = "stream" =>
                  /\ got.root = forked["Unravel"][1]
                  /\ broot.ctx = [inner |-> "Coalesce", id |-> aroot.num]
                  /\ broot.pc = "done" => got.items = value.items)
    /\ [](got.fault = "none" /\ output["Coalesce"].res # "Err")
    /\ <>(output["Coalesce"] = Ok /\ broot.pc = "done")

\* the value 1 has made the round trip
C16_Witness ==
    /\ value.kind = "flat"
    /\ value.val = 1
    /\ output["Unravel"] = Ok
    /\ output["Coalesce"] = Ok
    /\ got.root = 1

\* C17: A forks the stream of the items "0" .. "9" onto a new handle and hands
\* it to finalize. The read of B that finds the number of the handle completes
\* the root reconstruction, however many items have been written by then and
\* with none of them drained; the items B drains from the forked handle are
\* at any time the first of "0", "1", .., "9" in this order, and in the end
\* all ten of them, for every interleaving of the tasks of A and B.
C17_ForkedStream ==
    /\ [][(value.kind = "stream" /\ broot.pc = "coalesce" /\ HandleWritten /\ BReadStep)
            => (CoalesceCompletes /\ got'.items = <<>>)]_vars
    /\ [](value.kind = "stream" =>
            /\ IsPrefix(got.items, ItemsOfStream)
            /\ got.fault = "none"
            /\ broot.pc = "drain" => output["Coalesce"] = Ok
            /\ broot.pc = "done" => got.items = ItemsOfStream)
    /\ (value.kind = "stream" =>
            <>(output["Coalesce"] = Ok /\ broot.pc = "done" /\ Len(got.items) = StreamLen))

\* all ten items were drained, in order, after the root reconstruction had
\* completed; nothing is left on the wire
C17_Witness ==
    /\ value.kind = "stream"
    /\ output["Coalesce"] = Ok
    /\ broot.pc = "done"
    /\ got.items = <<<<48>>, <<49>>, <<50>>, <<51>>, <<52>>, <<53>>, <<54>>, <<55>>, <<56>>, <<57>>>>
    /\ inbound["Coalesce"] = <<>>

\* the root reconstruction completed before any item was written
C17_WitnessNoItemYet ==
    /\ value.kind = "stream"
    /\ output["Coalesce"] = Ok
    /\ abg = 0

\* items were written, and buffered by B, before the handle's number arrived
C17_WitnessBuffered ==
    /\ value.kind = "stream"
    /\ broot.pc = "coalesce"
    /\ Len(BufGet(bufs["Coalesce"], Handle(1))) >= 2

\* ------------------------------------------------ claims on the buffer map
\* the items the multiplexer has pulled from its stream, in order
Pulled == SubSeq(delivered, 1, Len(delivered) - Len(stream))

\* C18: the items not yet pulled are the stream; for every handle h the frames
\* with prefix h pulled so far are, in order, those taken by the reads for h
\* (each by one read, which returned its payload or its decoding failure)
\* followed by those in the buffer queue of h, nothing lost and nothing twice;
\* so once the stream is drained and the reads for each handle have taken as
\* many frames as were delivered for it, every buffer queue is empty.
C18_FrameConservation ==
    /\ stream = SubSeq(delivered, Len(delivered) - Len(stream) + 1, Len(delivered))
    /\ \A h \in WireHandles :
          DataOf(FramesFor(Pulled, h)) = DataOf(TakenBy(h)) \o BufGet(buffer, h)
    /\ DOMAIN buffer \subseteq WireHandles
    /\ (/\ stream = <<>>
        /\ \A h \in WireHandles : Len(TakenBy(h)) = Len(FramesFor(delivered, h)))
       => \A h \in DOMAIN buffer : buffer[h] = <<>>

\* two frames of different handles were delivered and both were read, the
\* first one delivered through the buffer queue after the second; no residue
C18_Witness ==
    /\ Len(delivered) = 2
    /\ Len(consumed) = 2
    /\ stream = <<>>
    /\ consumed[1].handle # consumed[2].handle
    /\ consumed[1].data = delivered[2].data
    /\ consumed[2].data = delivered[1].data
    /\ DOMAIN buffer # {}
    /\ \A h \in DOMAIN buffer : buffer[h] = <<>>

\* C19: a read for h that finds the queue of h non-empty returns at once with
\* the oldest frame of the queue, its decoded payload or its decoding failure:
\* it does not suspend, returns no error of the stream, no Insufficient and no
\* Terminated whatever the stream holds, registers no waker, and leaves the
\* stream and the queues of the other handles as they were.
C19_BufferedReadImmediate ==
    [][\A t \in Tasks :
         (ReadReturns(t) /\ BufGet(buffer, id[t]) # <<>>) =>
            LET frame == Head(buffer[id[t]])
                d == Deserialize(PayloadOf(frame))
            IN  /\ returned' = Returned(t, "read", id[t],
                                        IF d.ok THEN "Ok" ELSE "Serde",
                                        IF d.ok THEN d.val ELSE 0)
                /\ pc'[t] = "ready"
                /\ stream' = stream
                /\ waker' = waker
                /\ buffer'[id[t]] = Tail(buffer[id[t]])
                /\ \A k \in WireHandles :
                      k # id[t] => BufGet(buffer', k) = BufGet(buffer, k)
                /\ consumed' = Append(consumed, [handle |-> id[t], data |-> frame,
                                                 res |-> returned'.res])]_vars

\* a read has just returned the one frame of its queue while an error of the
\* stream was waiting to be pulled
C19_Witness ==
    /\ returned.op = "read"
    /\ returned.res = "Ok"
    /\ returned.handle \in DOMAIN buffer
    /\ buffer[returned.handle] = <<>>
    /\ Len(consumed) = 1
    /\ stream # <<>>
    /\ Head(stream).err

\* C20: every frame in the queue keyed by k is at least 4 bytes long and its
\* first 4 bytes are the big-endian number k; a read for h adds no frame to
\* the queue of h.
C20_BufferKeying ==
    /\ [](\A k \in DOMAIN buffer :
             \A i \in DOMAIN buffer[k] :
                /\ Len(buffer[k][i]) >= PrefixLen
                /\ BytesValue(SubSeq(buffer[k][i], 1, PrefixLen)) = Val(k)
                /\ PrefixOf(buffer[k][i]) = k)
    /\ [][\A t \in Tasks :
             ReadReturns(t) =>
                /\ Len(BufGet(buffer', id[t])) <= Len(BufGet(buffer, id[t]))
                /\ BufGet(buffer, id[t]) = <<>> => BufGet(buffer', id[t]) = <<>>]_vars

\* a read for handle 0 has put two frames in the queue of handle 1 and taken
\* none for itself
C20_Witness ==
    /\ returned.op = "read"
    /\ returned.handle = Handle(0)
    /\ Len(BufGet(buffer, Handle(1))) = 2
    /\ BufGet(buffer, Handle(0)) = <<>>
    /\ consumed = <<>>

\* ------------------------------------------- claims on sibling queues
\* the items the read attempt that is returning has pulled from the stream
PulledNow == SubSeq(stream, 1, Len(stream) - Len(stream'))
SomeReadReturns == \E t \in Tasks : ReadReturns(t)

\* C21: a read for h leaves the queue of every other handle k as it was,
\* followed by the frames of k it pulled from the stream, in arrival order,
\* whatever it ends with (Ok, Pending, Terminated, Stream, Insufficient or
\* Serde); every step that is not the return of a read (fork, join, write,
\* poll_ready, poll_flush, and the remote end) leaves the buffer map as it was.
C21_SiblingFramesSurvive ==
    [][/\ \A t \in Tasks :
             ReadReturns(t) =>
                /\ Len(stream') <= Len(stream)
                /\ \A k \in WireHandles :
                      k # id[t] =>
                         BufGet(buffer', k)
                             = BufGet(buffer, k) \o DataOf(FramesFor(PulledNow, k))
                /\ DOMAIN buffer \subseteq DOMAIN buffer'
       /\ ~SomeReadReturns => buffer' = buffer]_vars

\* a read has just failed with an error of the stream after it had put a
\* frame of another handle in that handle's queue
C21_Witness ==
    /\ returned.op = "read"
    /\ returned.res = "Stream"
    /\ stream = <<>>
    /\ Len(delivered) = 2
    /\ \E k \in WireHandles :
          /\ k # returned.handle
          /\ BufGet(buffer, k) = <<delivered[1].data>>

\* a write was made with a frame waiting in a queue, and the frame is still there
C21_WitnessWrite ==
    /\ returned.op = "write"
    /\ returned.res = "Ok"
    /\ \E k \in WireHandles : BufGet(buffer, k) # <<>>

\* ------------------------------------------------ claims on the sink
WrittenOk(t) == WriteReturns(t) /\ returned'.res = "Ok"
SinkFor(items, h) ==
    LET Mine(data) == Len(data) >= PrefixLen /\ PrefixOf(data) = h
    IN  SelectSeq(items, Mine)

\* C22: every item on the sink is one whole frame, the 4-byte prefix of a
\* context followed by the encoding of one value; a write that returns Ok puts
\* its frame at the tail of the sink, so the frames with prefix h are on the
\* sink in the order of the writes on h; no other step changes the sink,
\* neither another driver's operation nor a later poll of the engine, faulted
\* or not.
C22_WriteOrderAtomic ==
    /\ [](\A i \in DOMAIN sink :
             /\ Len(sink[i]) = PrefixLen + 1
             /\ \E t \in Tasks : PrefixOf(sink[i]) = id[t]
             /\ Deserialize(PayloadOf(sink[i])).ok)
    /\ [][IF \E t \in Tasks : WrittenOk(t)
          THEN \E t \in Tasks :
                  /\ WrittenOk(t)
                  /\ sink' = Append(sink, ToBeBytes(id[t]) \o <<returned'.val>>)
                  /\ \A h \in TaskHandles :
                        SinkFor(sink', h)
                            = SinkFor(sink, h)
                                 \o (IF h = id[t] THEN <<ToBeBytes(h) \o <<returned'.val>>>>
                                     ELSE <<>>)
          ELSE sink' = sink]_vars

\* the two drivers have each written on the same handle, with different values,
\* the second one while the first held no lock; the engine has ended with a
\* fault and the two frames are on the sink in the order they were written
C22_Witness ==
    /\ id["t1"] = id["t2"]
    /\ Len(sink) = 2
    /\ PayloadOf(sink[1]) # PayloadOf(sink[2])
    /\ returned.op = "write"
    /\ returned.res = "Ok"
    /\ <<returned.val>> = PayloadOf(sink[2])
    /\ output["Unravel"].res = "Err"

\* ------------------------------------- claims on contexts sharing an id
\* the drivers whose transport has id h (clones of one transport, joins of
\* the same id, tasks launched by finalize)
Holders(h) == {t \in Tasks : id[t] = h}
Shared(h) == Cardinality(Holders(h)) >= 2

\* C23: with two or more drivers reading on the same id h, the frames their
\* reads have taken, in the order of the returns, are the first frames with
\* prefix h in arrival order, each of them once; the read that takes a frame
\* is the only one that returns it (its payload, or its decoding failure), and
\* the other holders of h are left where they were.
C23_ExactlyOnceSharedId ==
    /\ [](\A h \in TaskHandles :
             Shared(h) => IsPrefix(DataOf(TakenBy(h)), DataOf(FramesFor(delivered, h))))
    /\ [][\A t \in Tasks :
             (ReadReturns(t) /\ Shared(id[t]) /\ consumed' # consumed) =>
                LET h == id[t]
                    n == Len(TakenBy(h))
                IN  /\ n < Len(FramesFor(delivered, h))
                    /\ consumed' = Append(consumed,
                                          [handle |-> h,
                                           data |-> FramesFor(delivered, h)[n + 1].data,
                                           res |-> returned'.res])
                    /\ returned'.task = t
                    /\ returned'.res \in {"Ok", "Serde"}
                    /\ \A u \in Holders(h) \ {t} : pc'[u] = pc[u]]_vars

\* with one holder of the id waiting in a read, another holder of the same id
\* has taken the two frames that arrived, in their order
C23_Witness ==
    /\ id["t1"] = id["t2"]
    /\ pc["t1"] = "woken"
    /\ returned.task = "t2"
    /\ returned.op = "read"
    /\ returned.res = "Ok"
    /\ Len(consumed) = 2
    /\ consumed[1].data = delivered[1].data
    /\ consumed[2].data = delivered[2].data
    /\ consumed[1].data # consumed[2].data
    /\ stream = <<>>

\* ------------------------------------------------ claims on failed reads
\* the last item the read attempt that is returning has pulled from the stream
LastPulled == stream[Len(stream) - Len(stream')]

\* C24: a read for h that fails with Serde has taken the frame it could not
\* decode, out of the queue of h if that was not empty and else out of the
\* stream; a read that fails with Insufficient has pulled the short item from
\* the stream, and the item is in no queue; what was pulled never comes back
\* on the stream, and the i-th frame taken for h, after failures as after
\* successes, is the i-th frame with prefix h that arrived.
C24_FailedReadsConsume ==
    /\ [][\A t \in Tasks :
             /\ (ReadReturns(t) /\ returned'.res = "Serde") =>
                   LET h == id[t]
                       queued == BufGet(buffer, h) # <<>>
                   IN  /\ queued => buffer'[h] = Tail(buffer[h]) /\ stream' = stream
                       /\ ~queued =>
                             /\ Len(stream') < Len(stream)
                             /\ WellFormed(LastPulled)
                             /\ PrefixOf(LastPulled.data) = h
                             /\ BufGet(buffer', h) = <<>>
                       /\ consumed' # consumed
                       /\ LET frame == consumed'[Len(consumed')]
                          IN  /\ consumed' = Append(consumed, frame)
                              /\ frame.handle = h /\ frame.res = "Serde"
                              /\ frame.data = (IF queued THEN Head(buffer[h])
                                               ELSE LastPulled.data)
                              /\ ~Deserialize(PayloadOf(frame.data)).ok
             /\ (ReadReturns(t) /\ returned'.res = "Insufficient") =>
                   /\ BufGet(buffer, id[t]) = <<>>
                   /\ Len(stream') < Len(stream)
                   /\ ~LastPulled.err
                   /\ Len(LastPulled.data) < PrefixLen
                   /\ consumed' = consumed
                   /\ \A k \in DOMAIN buffer' :
                         \A i \in DOMAIN buffer'[k] : buffer'[k][i] # LastPulled.data]_vars
    /\ [](/\ Len(stream) <= Len(delivered)
          /\ \A i \in DOMAIN stream :
                stream[i] = delivered[Len(delivered) - Len(stream) + i])
    /\ [](\A h \in TaskHandles :
             \A i \in DOMAIN TakenBy(h) :
                /\ i <= Len(FramesFor(delivered, h))
                /\ TakenBy(h)[i].data = FramesFor(delivered, h)[i].data)

\* a read for a handle failed with Serde on the first frame of the handle and
\* the next read for the handle returned the second one
C24_Witness ==
    /\ Len(consumed) = 2
    /\ consumed[1].handle = consumed[2].handle
    /\ consumed[1].res = "Serde"
    /\ consumed[2].res = "Ok"
    /\ consumed[1].data = delivered[1].data
    /\ consumed[2].data = delivered[2].data
    /\ returned.op = "read"
    /\ returned.res = "Ok"
    /\ stream = <<>>

\* a read failed with Insufficient on a short item, and the next read
\* returned the frame that had arrived behind it
C24_WitnessInsufficient ==
    /\ Len(delivered) = 2
    /\ ~delivered[1].err
    /\ Len(delivered[1].data) < PrefixLen
    /\ Len(consumed) = 1
    /\ consumed[1].data = delivered[2].data
    /\ returned.op = "read"
    /\ returned.res = "Ok"
    /\ stream = <<>>
    /\ \A k \in DOMAIN buffer : buffer[k] = <<>>

\* ------------------------------------------- claims on launched tasks
\* the driver that launches and the driver of the launched task
Launcher == "t1"
LaunchedTask == "t2"
Running(t) == pc[t] # Unspawned

\* C25: the task launched by finalize or finalize_immediate on a context with
\* id h holds a transport with the same id h on the same multiplexer; every
\* read it makes is a read for h and every frame it writes has the prefix h;
\* the launch itself, accepted or refused, returns no handle and leaves the
\* counter, the buffer map, the stream and the sink as they were.
C25_FinalizeBindsContext ==
    /\ [](/\ \A i \in DOMAIN spawned : spawned[i].transport = TransportOf(Launcher)
          /\ Running(LaunchedTask) =>
                /\ TransportOf(LaunchedTask) = TransportOf(Launcher)
                /\ spawned # <<>>
          /\ (returned.task = LaunchedTask /\ returned.op \in {"read", "write"}) =>
                returned.handle = id[Launcher]
          /\ \A i \in DOMAIN sink : PrefixOf(sink[i]) = id[Launcher]
          /\ \A i \in DOMAIN consumed : consumed[i].handle = id[Launcher])
    /\ [][LaunchStep =>
             /\ UNCHANGED <<next_id, allocated, buffer, stream, sink, lock, counter, forked>>
             /\ returned' = NoResult
             /\ id'[Launcher] = id[Launcher]
             /\ launched'[Len(launched')].res = "Ok" <=>
                   (~Running(LaunchedTask) /\ Running(LaunchedTask)')]_vars

\* the task launched on the context of the first fork (id 1) has written a
\* frame and read one, both on id 1, while a frame of the root context waits
\* in its queue
C25_Witness ==
    /\ id[Launcher] = Handle(1)
    /\ Running(LaunchedTask)
    /\ launched # <<>>
    /\ launched[Len(launched)].res = "Ok"
    /\ sink # <<>>
    /\ \E i \in DOMAIN consumed : consumed[i].res = "Ok"
    /\ returned.task = LaunchedTask

\* finalize_immediate was refused by the spawner: no task, nothing changed
C25_WitnessRefused ==
    /\ launched # <<>>
    /\ launched[1] = [kind |-> "finalize_immediate", res |-> "SpawnError"]
    /\ ~Running(LaunchedTask)
    /\ spawned = <<>>
    /\ stream # <<>>
====
